---- MODULE Spec2Model ----
(***************************************************************************)
(* Model of examples/play_audio_stream.py: the AudioBuffer, the            *)
(* VoiceAgentClient and the relay that main() runs between a LiveKit room  *)
(* and the voice agent; of the task list of examples/text_streaming.py     *)
(* (class TextStreamingApp); and of the token endpoint of                  *)
(* examples/server.py (class LiveKitHandler).                              *)
(*                                                                         *)
(* A numpy int16 array is modelled in run-length form: a sequence of runs  *)
(* [val, cnt] (cnt >= 1, adjacent runs of different val) that stands for   *)
(* the sample sequence val repeated cnt times, run after run.  Expand      *)
(* gives the plain sample sequence.                                        *)
(***************************************************************************)
EXTENDS Integers, Sequences, FiniteSets, TLC

VARIABLES
    \* AudioBuffer (the one audio_player owns, or the one under test)
    blocksize, buffer,
    \* observation of the last AudioBuffer call and history of the calls
    ab_op, ab_ret, ab_pre, ab_added, ab_out, ab_mode,
    \* VoiceAgentClient: self.websocket, self.connected; the agent's end of the
    \* channel
    websocket, connected, chan,
    \* main(): the two queues, the room, where main() is
    local_audio_queue, voice_agent_queue, room, mpc,
    \* the tasks: audio_player, listen_for_responses (and the frame it is
    \* putting), audio_publisher, and rtc_session (run inside main)
    player, lpc, lpending, ppc, rpc, rpending,
    participant_wait_time, participants, track_ready,
    \* how many more frames the track, and audio messages the agent, deliver
    \* (Unbounded: no limit)
    frames_left, audio_left,
    \* what the program's last step did (the call's outcome, logs and prints)
    ev,
    \* in an observed run (trace.on): the frames the track delivered, the
    \* send_audio calls, the audio the agent sent and the frames the publisher
    \* captured, each in order
    trace,
    \* TextStreamingApp: self.active_tasks (a list of tasks, named by their
    \* index in tasks), every task a stream handler created, the app's room
    \* and where its main() is
    active_tasks, tasks, app_room, app_pc,
    \* server.py: the module's LIVEKIT_AVAILABLE, os.environ, the request the
    \* handler served last, the responses it wrote for it, and whether it
    \* built an access token for it
    LIVEKIT_AVAILABLE, environ, request, responses, generated

histVars == <<ab_op, ab_ret, ab_pre, ab_added, ab_out, ab_mode>>
abVars == <<blocksize, buffer, histVars>>
clientVars == <<websocket, connected, chan>>
sessionVars == <<participant_wait_time, participants, track_ready, frames_left, audio_left>>
relayVars == <<clientVars, local_audio_queue, voice_agent_queue, room, mpc,
               player, lpc, lpending, ppc, rpc, rpending, sessionVars, ev>>

obsVars == <<abVars, trace>>

textVars == <<active_tasks, tasks, app_room, app_pc>>

serverVars == <<LIVEKIT_AVAILABLE, environ, request, responses, generated>>

vars == <<abVars, relayVars, trace, textVars, serverVars>>

----------------------------------------------------------------------------
(* Program constants *)

SAMPLERATE == 48000
BLOCKSIZE == 480
VOICE_AGENT_INPUT_RATE == 16000
VOICE_AGENT_OUTPUT_RATE == 24000
QueueMaxSize == 50

(* Bounds of the model *)

MaxSessionFrames == 2  \* frames the track delivers in a whole run of main()
MaxAgentAudio == 2     \* audio messages the agent sends in a whole run of main()
MaxBufferedBlocks == 0 \* player backlog (in blocks) up to which frames arrive
AgentPcmLen == 240     \* samples in one audio message of the agent (10 ms)

Unbounded == 0 - 1

MaxBlocksize == 3      \* AudioBuffer(blocksize) under test: 1..MaxBlocksize
MaxFrameLen == 3       \* samples in one add_frame call: 0..MaxFrameLen
MaxAdded == 5          \* total samples added to the AudioBuffer under test

MaxScenarioFrames == 3 \* frames the track delivers in an observed run
MaxScenarioAudio == 3  \* audio messages the agent sends in an observed run

MaxLenDelta == 2       \* the client under test: frames of BLOCKSIZE -+ MaxLenDelta
                       \* samples, audio messages of AgentPcmLen -+ MaxLenDelta

MaxPlayerFrames == 3   \* frames the track delivers to the player under test

MaxTextTasks == 2      \* text streams TextStreamingApp receives in a run

SampleVals == {0, 1, 2}

----------------------------------------------------------------------------
(* numpy arrays in run-length form *)

Min(a, b) == IF a <= b THEN a ELSE b

RECURSIVE ArrLen(_)
ArrLen(a) == IF a = <<>> THEN 0 ELSE a[1].cnt + ArrLen(Tail(a))

\* np.concatenate([a, b])
ArrCat(a, b) ==
    IF a = <<>> THEN b
    ELSE IF b = <<>> THEN a
    ELSE IF a[Len(a)].val = b[1].val
         THEN SubSeq(a, 1, Len(a) - 1)
              \o <<[val |-> b[1].val, cnt |-> a[Len(a)].cnt + b[1].cnt]>>
              \o Tail(b)
         ELSE a \o b

\* a[:k]
RECURSIVE ArrTake(_, _)
ArrTake(a, k) ==
    IF k <= 0 \/ a = <<>> THEN <<>>
    ELSE IF a[1].cnt >= k THEN <<[val |-> a[1].val, cnt |-> k]>>
    ELSE ArrCat(<<a[1]>>, ArrTake(Tail(a), k - a[1].cnt))

\* a[k:]
RECURSIVE ArrDrop(_, _)
ArrDrop(a, k) ==
    IF k <= 0 \/ a = <<>> THEN a
    ELSE IF a[1].cnt > k THEN <<[val |-> a[1].val, cnt |-> a[1].cnt - k]>> \o Tail(a)
    ELSE ArrDrop(Tail(a), k - a[1].cnt)

\* np.zeros(n, dtype=np.int16)
ArrZeros(n) == IF n <= 0 THEN <<>> ELSE <<[val |-> 0, cnt |-> n]>>

\* chunk[:available] = data   (len(data) = available <= len(chunk))
ArrAssignHead(chunk, available, data) == ArrCat(data, ArrDrop(chunk, available))

\* the plain sample sequence an array stands for
RECURSIVE Expand(_)
Expand(a) ==
    IF a = <<>> THEN <<>>
    ELSE [i \in 1..a[1].cnt |-> a[1].val] \o Expand(Tail(a))

\* the array of a plain sample sequence
RECURSIVE Arr(_)
Arr(s) == IF s = <<>> THEN <<>> ELSE ArrCat(<<[val |-> s[1], cnt |-> 1]>>, Arr(Tail(s)))

----------------------------------------------------------------------------
(* class AudioBuffer *)

NoChunk == [some |-> FALSE, data |-> <<>>]
Chunk(a) == [some |-> TRUE, data |-> a]

add_frame_front(buf, frame_data) == ArrCat(frame_data, buf)

add_frame(buf, frame_data) == ArrCat(buf, frame_data)

get_chunk_tail(buf, bs) ==
    IF ArrLen(buf) >= bs
    THEN [chunk |-> Chunk(ArrDrop(buf, ArrLen(buf) - bs)),
          buffer |-> ArrTake(buf, ArrLen(buf) - bs)]
    ELSE [chunk |-> NoChunk, buffer |-> buf]

get_chunk_short(buf, bs) ==
    IF ArrLen(buf) > bs
    THEN [chunk |-> Chunk(ArrTake(buf, bs)), buffer |-> ArrDrop(buf, bs)]
    ELSE [chunk |-> NoChunk, buffer |-> buf]

get_chunk(buf, bs) ==
    IF ArrLen(buf) >= bs
    THEN [chunk |-> Chunk(ArrTake(buf, bs)), buffer |-> ArrDrop(buf, bs)]
    ELSE [chunk |-> NoChunk, buffer |-> buf]

get_padded_chunk_front(buf, bs) ==
    IF ArrLen(buf) > 0
    THEN LET available == Min(ArrLen(buf), bs)
         IN  [chunk |-> Chunk(ArrCat(ArrZeros(bs - available), ArrTake(buf, available))),
              buffer |-> ArrDrop(buf, available)]
    ELSE [chunk |-> Chunk(ArrZeros(bs)), buffer |-> buf]

get_padded_chunk_all(buf, bs) ==
    IF ArrLen(buf) > 0
    THEN LET available == Min(ArrLen(buf), bs)
         IN  [chunk |-> Chunk(ArrAssignHead(ArrZeros(bs), available,
                                            ArrTake(buf, available))),
              buffer |-> <<>>]
    ELSE [chunk |-> Chunk(ArrZeros(bs)), buffer |-> buf]

get_padded_chunk(buf, bs) ==
    IF ArrLen(buf) > 0
    THEN LET available == Min(ArrLen(buf), bs)
         IN  [chunk |-> Chunk(ArrAssignHead(ArrZeros(bs), available,
                                            ArrTake(buf, available))),
              buffer |-> ArrDrop(buf, available)]
    ELSE [chunk |-> Chunk(ArrZeros(bs)), buffer |-> buf]

----------------------------------------------------------------------------
(* asyncio.Queue(maxsize=50): put suspends the caller while the queue is    *)
(* full and never raises QueueFull (only put_nowait does).                 *)

queue_put_front(q, item) ==
    IF Len(q) >= QueueMaxSize
    THEN [queue |-> q, blocked |-> TRUE]
    ELSE [queue |-> <<item>> \o q, blocked |-> FALSE]

queue_put_unbounded(q, item) == [queue |-> Append(q, item), blocked |-> FALSE]

queue_put(q, item) ==
    IF Len(q) >= QueueMaxSize
    THEN [queue |-> q, blocked |-> TRUE]
    ELSE [queue |-> Append(q, item), blocked |-> FALSE]

NoFrame == <<>>

----------------------------------------------------------------------------
(* Messages of the voice-agent channel.  A message is text that parses as  *)
(* JSON or not; a JSON value is an object (dict, with its fields) or not.  *)
(* A "data" string decodes as base64 to the bytes of pcm, or does not.     *)

AudioData(pcm) == [b64 |-> TRUE, pcm |-> pcm, text |-> ""]
TextData(t) == [b64 |-> FALSE, pcm |-> <<>>, text |-> t]

JsonObject(fields) == [json |-> TRUE, dict |-> TRUE, fields |-> fields]
JsonOther == [json |-> TRUE, dict |-> FALSE, fields |-> [scalar |-> 1]]
NotJson == [json |-> FALSE, dict |-> FALSE, fields |-> [scalar |-> 0]]

ReadyMessage == JsonObject([type |-> "ready"])
ReadyMessageExtra == JsonObject([type |-> "ready", session |-> "s1"])
AudioMessage(pcm) == JsonObject([type |-> "audio", data |-> AudioData(pcm)])
BadAudioMessage == JsonObject([type |-> "audio", data |-> TextData("%")])
TextMessage(t) == JsonObject([type |-> "text", data |-> TextData(t)])
PingMessage == JsonObject([type |-> "ping"])
UntypedMessage == JsonObject([data |-> TextData("hello")])

AgentPcm == <<[val |-> 1, cnt |-> AgentPcmLen]>>
SessionFrames == {<<[val |-> 1, cnt |-> BLOCKSIZE]>>}

FirstMessages ==
    {ReadyMessage, ReadyMessageExtra, AudioMessage(AgentPcm), TextMessage("hello"),
     PingMessage, UntypedMessage, JsonOther, NotJson}

AgentMessages ==
    {AudioMessage(AgentPcm), BadAudioMessage, TextMessage("hello"), PingMessage,
     UntypedMessage, ReadyMessage, JsonOther, NotJson}

\* data.get(key): None when the key is missing
dict_get(fields, key) == IF key \in DOMAIN fields THEN fields[key] ELSE "None"

\* scipy.signal.resample(x, num).astype(np.int16): num samples.  The frames
\* of this model are constant signals, whose band-limited interpolation is
\* the same constant.
resample_keep(x, num) == x

resample(x, num) ==
    IF num <= 0 \/ x = <<>> THEN <<>> ELSE <<[val |-> x[1].val, cnt |-> num]>>

----------------------------------------------------------------------------
(* class VoiceAgentClient *)

\* connect(): opened says whether websockets.connect returned, received
\* whether recv() returned a message (it raises when the channel closed).
\* Gives self.websocket, self.connected and the return value.
connect_any(ws, conn, opened, received, message) ==
    IF ~opened THEN [websocket |-> ws, connected |-> conn, ret |-> FALSE]
    ELSE IF ~received \/ ~message.json \/ ~message.dict
    THEN [websocket |-> "open", connected |-> conn, ret |-> FALSE]
    ELSE [websocket |-> "open", connected |-> TRUE, ret |-> TRUE]

connect(ws, conn, opened, received, message) ==
    IF ~opened THEN [websocket |-> ws, connected |-> conn, ret |-> FALSE]
    ELSE IF ~received \/ ~message.json \/ ~message.dict
    THEN [websocket |-> "open", connected |-> conn, ret |-> FALSE]
    ELSE IF dict_get(message.fields, "type") = "ready"
    THEN [websocket |-> "open", connected |-> TRUE, ret |-> TRUE]
    ELSE [websocket |-> "open", connected |-> conn, ret |-> FALSE]

\* send_audio(audio_data): sendable says whether websocket.send succeeds.
\* Gives the client's fields and what the call did: "skipped" (returned at
\* once), "sent" (message went out on the channel) or "failed" (an exception
\* was logged).
NoMessage == NotJson

send_audio_raw(ws, conn, audio_data, sendable) ==
    IF ~conn \/ ws = "None"
    THEN [websocket |-> ws, connected |-> conn, result |-> "skipped",
          message |-> NoMessage]
    ELSE IF sendable
    THEN [websocket |-> ws, connected |-> conn, result |-> "sent",
          message |-> AudioMessage(audio_data)]
    ELSE [websocket |-> ws, connected |-> conn, result |-> "failed",
          message |-> NoMessage]

send_audio_unguarded(ws, conn, audio_data, sendable) ==
    LET resampled == resample(audio_data,
                         (ArrLen(audio_data) * VOICE_AGENT_INPUT_RATE) \div SAMPLERATE)
    IN  IF sendable
        THEN [websocket |-> ws, connected |-> conn, result |-> "sent",
              message |-> AudioMessage(resampled)]
        ELSE [websocket |-> ws, connected |-> conn, result |-> "failed",
              message |-> NoMessage]

send_audio_teardown(ws, conn, audio_data, sendable) ==
    LET resampled == resample(audio_data,
                         (ArrLen(audio_data) * VOICE_AGENT_INPUT_RATE) \div SAMPLERATE)
    IN  IF ~conn \/ ws = "None"
        THEN [websocket |-> ws, connected |-> conn, result |-> "skipped",
              message |-> NoMessage]
        ELSE IF sendable
        THEN [websocket |-> ws, connected |-> conn, result |-> "sent",
              message |-> AudioMessage(resampled)]
        ELSE [websocket |-> ws, connected |-> FALSE, result |-> "failed",
              message |-> NoMessage]

send_audio(ws, conn, audio_data, sendable) ==
    IF ~conn \/ ws = "None"
    THEN [websocket |-> ws, connected |-> conn, result |-> "skipped",
          message |-> NoMessage]
    ELSE LET resampled == resample(audio_data,
                              (ArrLen(audio_data) * VOICE_AGENT_INPUT_RATE) \div SAMPLERATE)
         IN  IF sendable
             THEN [websocket |-> ws, connected |-> conn, result |-> "sent",
                   message |-> AudioMessage(resampled)]
             ELSE [websocket |-> ws, connected |-> conn, result |-> "failed",
                   message |-> NoMessage]

\* One message of listen_for_responses' loop, up to the queue put.  Gives
\* what the body does with it: "raise" (an exception leaves the loop), "put"
\* (an audio frame for the queue), "print" or "ignore".
listen_message_tolerant(message) ==
    IF ~message.json \/ ~message.dict THEN [do |-> "ignore", frame |-> NoFrame]
    ELSE LET type == dict_get(message.fields, "type") IN
         IF type = "audio"
         THEN LET audio_b64 == message.fields.data IN
              IF ~audio_b64.b64 THEN [do |-> "ignore", frame |-> NoFrame]
              ELSE [do |-> "put",
                    frame |-> resample(audio_b64.pcm,
                                 (ArrLen(audio_b64.pcm) * SAMPLERATE)
                                     \div VOICE_AGENT_OUTPUT_RATE)]
         ELSE IF type = "text" THEN [do |-> "print", frame |-> NoFrame]
         ELSE [do |-> "ignore", frame |-> NoFrame]

listen_message_strict(message) ==
    IF ~message.json \/ ~message.dict THEN [do |-> "raise", frame |-> NoFrame]
    ELSE LET type == dict_get(message.fields, "type") IN
         IF type = "audio"
         THEN LET audio_b64 == message.fields.data IN
              IF ~audio_b64.b64 THEN [do |-> "raise", frame |-> NoFrame]
              ELSE [do |-> "put",
                    frame |-> resample(audio_b64.pcm,
                                 (ArrLen(audio_b64.pcm) * SAMPLERATE)
                                     \div VOICE_AGENT_OUTPUT_RATE)]
         ELSE IF type = "text" THEN [do |-> "print", frame |-> NoFrame]
         ELSE [do |-> "raise", frame |-> NoFrame]

listen_message(message) ==
    IF ~message.json \/ ~message.dict THEN [do |-> "raise", frame |-> NoFrame]
    ELSE LET type == dict_get(message.fields, "type") IN
         IF type = "audio"
         THEN LET audio_b64 == message.fields.data IN
              IF ~audio_b64.b64 THEN [do |-> "raise", frame |-> NoFrame]
              ELSE [do |-> "put",
                    frame |-> resample(audio_b64.pcm,
                                 (ArrLen(audio_b64.pcm) * SAMPLERATE)
                                     \div VOICE_AGENT_OUTPUT_RATE)]
         ELSE IF type = "text" THEN [do |-> "print", frame |-> NoFrame]
         ELSE [do |-> "ignore", frame |-> NoFrame]

\* text_listener()'s process_and_send(): readable says whether
\* reader.read_all() returns the message (else _process_chat_message logs and
\* returns None, and websocket.send(None) raises), sendable whether
\* websocket.send succeeds.  Gives what went out on the channel.
process_and_send_none(readable, full_message, sendable) ==
    IF sendable
    THEN [result |-> "sent",
          message |-> IF readable THEN TextMessage(full_message) ELSE JsonOther]
    ELSE [result |-> "failed", message |-> NoMessage]

process_and_send(readable, full_message, sendable) ==
    IF ~readable THEN [result |-> "failed", message |-> NoMessage]
    ELSE IF sendable THEN [result |-> "sent", message |-> TextMessage(full_message)]
    ELSE [result |-> "failed", message |-> NoMessage]

\* What an inbound message is to the receive loop: an "audio" message with
\* decodable data, a "text" message, a JSON object of any "other" type (or of
\* none), or "malformed" (not JSON, not an object, undecodable audio data).
MessageKind(message) ==
    IF ~message.json \/ ~message.dict THEN "malformed"
    ELSE IF "type" \notin DOMAIN message.fields THEN "other"
    ELSE IF message.fields.type = "audio"
    THEN (IF "data" \in DOMAIN message.fields /\ message.fields.data.b64
          THEN "audio" ELSE "malformed")
    ELSE IF message.fields.type = "text" THEN "text"
    ELSE "other"

\* disconnect(): websocket.close() is a no-op on a closed websocket
disconnect_reopens(ws) ==
    [connected |-> FALSE, websocket |-> IF ws = "open" THEN "closed" ELSE "None"]

disconnect_flag_only(ws) ==
    [connected |-> FALSE, websocket |-> ws]

disconnect(ws) ==
    [connected |-> FALSE, websocket |-> IF ws = "None" THEN "None" ELSE "closed"]

----------------------------------------------------------------------------
(* main() and its tasks.  The initial state is main() at its first await   *)
(* (room.connect, line 472): the queues and the client exist, the player   *)
(* task is scheduled.                                                      *)

WaitLimit == 30

Other(op) == [op |-> op]

NoTrace == [on |-> FALSE, fed |-> <<>>, sent |-> <<>>, heard |-> <<>>, published |-> <<>>]

HistIdle ==
    /\ ab_op = "init"
    /\ ab_ret = NoChunk
    /\ ab_pre = <<>>
    /\ ab_added = <<>>
    /\ ab_out = <<>>
    /\ ab_mode = "fill"
    /\ trace = NoTrace

RelayIdle ==
    /\ websocket = "None"
    /\ connected = FALSE
    /\ chan = "none"
    /\ local_audio_queue = <<>>
    /\ voice_agent_queue = <<>>
    /\ room = "new"
    /\ mpc = "room_connect"
    /\ player = "scheduled"
    /\ lpc = "none"
    /\ lpending = NoFrame
    /\ ppc = "none"
    /\ rpc = "none"
    /\ rpending = NoFrame
    /\ participant_wait_time = 0
    /\ participants = FALSE
    /\ track_ready = FALSE
    /\ frames_left = MaxSessionFrames
    /\ audio_left = MaxAgentAudio
    /\ ev = Other("init")

\* server.py imported, no request served yet
NoRequest == [method |-> "none"]

ServerIdle ==
    /\ LIVEKIT_AVAILABLE = TRUE
    /\ environ = [LIVEKIT_API_KEY |-> "None", LIVEKIT_API_SECRET |-> "None"]
    /\ request = NoRequest
    /\ responses = <<>>
    /\ generated = FALSE

\* TextStreamingApp(): no task yet, the room not connected
TextIdle ==
    /\ active_tasks = <<>>
    /\ tasks = <<>>
    /\ app_room = "new"
    /\ app_pc = "connect"

Init ==
    /\ blocksize = BLOCKSIZE
    /\ buffer = <<>>
    /\ HistIdle
    /\ RelayIdle
    /\ TextIdle
    /\ ServerIdle

(* audio_player *)

\* sd.OutputStream(...) opens the device or raises
PlayerStart ==
    /\ player = "scheduled"
    /\ \E opened \in BOOLEAN : player' = IF opened THEN "running" ELSE "failed"
    /\ ev' = Other("player_start")
    /\ UNCHANGED <<obsVars, clientVars, local_audio_queue, voice_agent_queue, room, mpc,
                   lpc, lpending, ppc, rpc, rpending, sessionVars>>

RECURSIVE add_frames(_, _)
add_frames(buf, q) == IF q = <<>> THEN buf ELSE add_frames(add_frame(buf, Head(q)), Tail(q))

callback_out_unpadded(filled, bs, c) ==
    IF c.chunk.some
    THEN [queue |-> <<>>, buffer |-> c.buffer, outdata |-> c.chunk.data, padded |-> FALSE]
    ELSE [queue |-> <<>>, buffer |-> <<>>, outdata |-> filled, padded |-> TRUE]

\* callback(outdata, frames, time, status), called by the audio device,
\* after its `while not queue.empty():` loop has filled the buffer
callback_out(filled, bs, c) ==
    IF c.chunk.some
    THEN [queue |-> <<>>, buffer |-> c.buffer, outdata |-> c.chunk.data, padded |-> FALSE]
    ELSE LET p == get_padded_chunk(filled, bs) IN
         [queue |-> <<>>, buffer |-> p.buffer, outdata |-> p.chunk.data, padded |-> TRUE]

callback_filled(filled, bs) == callback_out(filled, bs, get_chunk(filled, bs))

callback(buf, bs, q) == callback_filled(add_frames(buf, q), bs)

PlayerCallbackDoes(r) ==
    /\ local_audio_queue' = r.queue
    /\ buffer' = r.buffer
    /\ ev' = [op |-> "callback", taken |-> Len(local_audio_queue) - Len(r.queue),
              outdata |-> r.outdata, padded |-> r.padded]

PlayerCallback ==
    /\ player \in {"running", "cancelling"}
    /\ PlayerCallbackDoes(callback(buffer, blocksize, local_audio_queue))
    /\ UNCHANGED <<blocksize, histVars, trace, clientVars, voice_agent_queue, room, mpc, player,
                   lpc, lpending, ppc, rpc, rpending, sessionVars>>

PlayerCancelled ==
    /\ player = "cancelling"
    /\ player' = "cancelled"
    /\ ev' = Other("player_cancelled")
    /\ UNCHANGED <<obsVars, clientVars, local_audio_queue, voice_agent_queue, room, mpc,
                   lpc, lpending, ppc, rpc, rpending, sessionVars>>

(* main(), up to rtc_session *)

MainRoomConnect ==
    /\ mpc = "room_connect"
    /\ player # "scheduled"
    /\ \E ok \in BOOLEAN :
        /\ room' = IF ok THEN "connected" ELSE room
        /\ mpc' = IF ok THEN "va_connect" ELSE "cleanup"
    /\ ev' = Other("room_connect")
    /\ UNCHANGED <<obsVars, clientVars, local_audio_queue, voice_agent_queue,
                   player, lpc, lpending, ppc, rpc, rpending, sessionVars>>

\* `if await voice_agent.connect():` and, when it is true, the creation of
\* the listener and publisher tasks and the call of rtc_session
MainConnect ==
    /\ mpc = "va_connect"
    /\ \E opened \in BOOLEAN, received \in BOOLEAN, message \in FirstMessages :
        LET r == connect(websocket, connected, opened, received, message) IN
        /\ websocket' = r.websocket
        /\ connected' = r.connected
        /\ chan' = IF ~opened THEN chan ELSE IF received THEN "open" ELSE "closed_err"
        /\ mpc' = IF r.ret THEN "rtc_session" ELSE "cleanup"
        /\ lpc' = IF r.ret THEN "recv" ELSE lpc
        /\ ppc' = IF r.ret THEN "publish" ELSE ppc
        /\ rpc' = IF r.ret THEN "wait" ELSE rpc
        /\ ev' = [op |-> "connect", opened |-> opened, received |-> opened /\ received,
                  message |-> message, ret |-> r.ret]
    /\ UNCHANGED <<obsVars, local_audio_queue, voice_agent_queue, room, player,
                   lpending, rpending, sessionVars>>

(* the room and the voice agent, as the program sees them *)

ParticipantJoins ==
    /\ ~participants
    /\ room = "connected"
    /\ participants' = TRUE
    /\ UNCHANGED <<ev, obsVars, clientVars, local_audio_queue, voice_agent_queue, room, mpc,
                   player, lpc, lpending, ppc, rpc, rpending, participant_wait_time,
                   track_ready, frames_left, audio_left>>

TrackSubscribed ==
    /\ participants
    /\ ~track_ready
    /\ room = "connected"
    /\ track_ready' = TRUE
    /\ UNCHANGED <<ev, obsVars, clientVars, local_audio_queue, voice_agent_queue, room, mpc,
                   player, lpc, lpending, ppc, rpc, rpending, participant_wait_time,
                   participants, frames_left, audio_left>>

AgentCloses ==
    /\ chan = "open"
    /\ \E kind \in {"closed_ok", "closed_err"} : chan' = kind
    /\ UNCHANGED <<obsVars, websocket, connected, local_audio_queue,
                   voice_agent_queue, room, mpc, player, lpc, lpending, ppc, rpc,
                   rpending, sessionVars, ev>>

(* rtc_session *)

\* one turn of `while len(room.remote_participants) == 0:`
RtcWaitParticipants ==
    /\ rpc = "wait"
    /\ IF participants
       THEN /\ rpc' = "find_track"
            /\ UNCHANGED participant_wait_time
       ELSE /\ participant_wait_time' = participant_wait_time + 1
            /\ rpc' = IF participant_wait_time + 1 > WaitLimit THEN "returned" ELSE "wait"
    /\ ev' = Other("wait_participants")
    /\ UNCHANGED <<obsVars, clientVars, local_audio_queue, voice_agent_queue, room, mpc,
                   player, lpc, lpending, ppc, rpending, participants, track_ready,
                   frames_left, audio_left>>

RtcFindTrackTimesOut ==
    /\ rpc = "find_track"
    /\ IF participants /\ track_ready
       THEN \E created \in BOOLEAN : rpc' = IF created THEN "loop" ELSE "returned"
       ELSE rpc' = "returned"
    /\ ev' = Other("find_track")
    /\ UNCHANGED <<obsVars, clientVars, local_audio_queue, voice_agent_queue, room, mpc,
                   player, lpc, lpending, ppc, rpending, sessionVars>>

\* one turn of `while not track:` and, with a track, AudioStream.from_track
RtcFindTrack ==
    /\ rpc = "find_track"
    /\ IF participants /\ track_ready
       THEN \E created \in BOOLEAN : rpc' = IF created THEN "loop" ELSE "returned"
       ELSE rpc' = rpc
    /\ ev' = Other("find_track")
    /\ UNCHANGED <<obsVars, clientVars, local_audio_queue, voice_agent_queue, room, mpc,
                   player, lpc, lpending, ppc, rpending, sessionVars>>

\* one frame of `async for audio_frame_event in stream:` up to the queue put:
\* r is what send_audio did, p what queue.put did
RtcFrameDoes(audio_data, r, p) ==
    /\ websocket' = r.websocket
    /\ connected' = r.connected
    /\ local_audio_queue' = p.queue
    /\ rpc' = IF p.blocked THEN "put" ELSE "loop"
    /\ rpending' = IF p.blocked THEN audio_data ELSE NoFrame
    /\ ev' = [op |-> "frame", ready |-> connected /\ websocket # "None",
              send |-> r.result, message |-> r.message,
              full |-> p.blocked, dropped |-> FALSE]
    /\ trace' = IF trace.on
                THEN [trace EXCEPT !.fed = Append(@, audio_data),
                                   !.sent = Append(@, [result |-> r.result,
                                                       message |-> r.message])]
                ELSE trace

RtcFrameFrom(frames) ==
    /\ rpc = "loop"
    /\ frames_left # 0
    /\ ArrLen(buffer) <= MaxBufferedBlocks * BLOCKSIZE
    /\ \E audio_data \in frames, sendable \in BOOLEAN :
        /\ sendable => (websocket = "open" /\ chan = "open")
        /\ RtcFrameDoes(audio_data,
                        send_audio(websocket, connected, audio_data, sendable),
                        queue_put(local_audio_queue, audio_data))
    /\ frames_left' = IF frames_left > 0 THEN frames_left - 1 ELSE frames_left
    /\ UNCHANGED <<abVars, chan, voice_agent_queue, room, mpc, player, lpc, lpending,
                   ppc, participant_wait_time, participants, track_ready, audio_left>>

RtcFrame == RtcFrameFrom(SessionFrames)

\* `await queue.put(audio_data)` resumes once the queue has room
RtcPutResumes ==
    /\ rpc = "put"
    /\ Len(local_audio_queue) < QueueMaxSize
    /\ local_audio_queue' = Append(local_audio_queue, rpending)
    /\ rpc' = "loop"
    /\ rpending' = NoFrame
    /\ ev' = Other("frame_put")
    /\ UNCHANGED <<obsVars, clientVars, voice_agent_queue, room, mpc, player, lpc,
                   lpending, ppc, sessionVars>>

\* the stream ends or raises: `finally: await stream.aclose()` and return
RtcStreamEnds ==
    /\ rpc = "loop"
    /\ rpc' = "returned"
    /\ ev' = Other("stream_ends")
    /\ UNCHANGED <<obsVars, clientVars, local_audio_queue, voice_agent_queue, room, mpc,
                   player, lpc, lpending, ppc, rpending, sessionVars>>

(* listen_for_responses *)

\* audio_data of an inbound audio message (line 154), empty for any other
Pcm(message) ==
    IF MessageKind(message) = "audio" THEN message.fields.data.pcm ELSE <<>>

\* one message of `async for message in self.websocket:`: kind is what the
\* message is, pcm its samples, a what the body does with it up to the queue
\* put, p what output_queue.put does
ListenerMessageDoes(kind, pcm, a, p) ==
    /\ a.do = "put" => audio_left # 0
    /\ audio_left' = IF a.do = "put" /\ audio_left > 0 THEN audio_left - 1 ELSE audio_left
    /\ connected' = IF a.do = "raise" THEN FALSE ELSE connected
    /\ voice_agent_queue' = IF a.do = "put" THEN p.queue ELSE voice_agent_queue
    /\ lpc' = IF a.do = "raise" THEN "done"
              ELSE IF a.do = "put" /\ p.blocked THEN "put" ELSE "recv"
    /\ lpending' = IF a.do = "put" /\ p.blocked THEN a.frame ELSE NoFrame
    /\ ev' = [op |-> "listen", kind |-> kind, n |-> ArrLen(pcm), do |-> a.do,
              out |-> ArrLen(a.frame),
              full |-> a.do = "put" /\ p.blocked, dropped |-> FALSE]
    /\ trace' = IF trace.on /\ kind = "audio"
                THEN [trace EXCEPT !.heard = Append(@, pcm)]
                ELSE trace

ListenerMessageGets(kind, pcm, a) ==
    ListenerMessageDoes(kind, pcm, a, queue_put(voice_agent_queue, a.frame))

ListenerMessageFrom(messages) ==
    /\ lpc = "recv"
    /\ websocket = "open"
    /\ chan = "open"
    /\ \E message \in messages :
        ListenerMessageGets(MessageKind(message), Pcm(message), listen_message(message))
    /\ UNCHANGED <<abVars, websocket, chan, local_audio_queue, room, mpc, player,
                   ppc, rpc, rpending, participant_wait_time, participants, track_ready,
                   frames_left>>

ListenerMessage == ListenerMessageFrom(AgentMessages)

\* the channel closed (by the agent, or by this end's websocket.close()):
\* `async for` ends after a normal closure and raises ConnectionClosed after
\* any other
ListenerClosed ==
    /\ lpc = "recv"
    /\ chan \in {"closed_ok", "closed_err"} \/ websocket = "closed"
    /\ connected' = IF chan = "closed_err" THEN FALSE ELSE connected
    /\ lpc' = "done"
    /\ ev' = [op |-> "listen_closed", clean |-> chan # "closed_err"]
    /\ UNCHANGED <<obsVars, websocket, chan, local_audio_queue, voice_agent_queue,
                   room, mpc, player, lpending, ppc, rpc, rpending, sessionVars>>

\* `await self.output_queue.put(resampled)` resumes once the queue has room
ListenerPutResumes ==
    /\ lpc = "put"
    /\ Len(voice_agent_queue) < QueueMaxSize
    /\ voice_agent_queue' = Append(voice_agent_queue, lpending)
    /\ lpc' = "recv"
    /\ lpending' = NoFrame
    /\ ev' = Other("listen_put")
    /\ UNCHANGED <<obsVars, clientVars, local_audio_queue, room, mpc, player, ppc, rpc,
                   rpending, sessionVars>>

ListenerCancelled ==
    /\ lpc = "cancelling"
    /\ lpc' = "cancelled"
    /\ lpending' = NoFrame
    /\ ev' = Other("listener_cancelled")
    /\ UNCHANGED <<obsVars, clientVars, local_audio_queue, voice_agent_queue, room, mpc,
                   player, ppc, rpc, rpending, sessionVars>>

(* audio_publisher *)

\* `await room.local_participant.publish_track(track, options)`, outside the try
PublisherPublishes ==
    /\ ppc = "publish"
    /\ \E ok \in BOOLEAN : ppc' = IF ok THEN "get" ELSE "failed"
    /\ ev' = Other("publish_track")
    /\ UNCHANGED <<obsVars, clientVars, local_audio_queue, voice_agent_queue, room, mpc,
                   player, lpc, lpending, rpc, rpending, sessionVars>>

\* one turn of `while True:`: queue.get, then capture_frame, which may raise
PublisherFrame ==
    /\ ppc = "get"
    /\ voice_agent_queue # <<>>
    /\ voice_agent_queue' = Tail(voice_agent_queue)
    /\ \E captured \in BOOLEAN :
        /\ ppc' = IF captured THEN "get" ELSE "done"
        /\ ev' = [op |-> "publish", audio_data |-> Head(voice_agent_queue),
                  captured |-> captured]
        /\ trace' = IF trace.on /\ captured
                    THEN [trace EXCEPT !.published = Append(@, Head(voice_agent_queue))]
                    ELSE trace
    /\ UNCHANGED <<abVars, clientVars, local_audio_queue, room, mpc, player, lpc,
                   lpending, rpc, rpending, sessionVars>>

PublisherCancelled ==
    /\ ppc = "cancelling"
    /\ ppc' = "cancelled"
    /\ ev' = Other("publisher_cancelled")
    /\ UNCHANGED <<obsVars, clientVars, local_audio_queue, voice_agent_queue, room, mpc,
                   player, lpc, lpending, rpc, rpending, sessionVars>>

(* the text bridge: the handler main() registers for the "chat" topic *)

ChatTexts == {"hello"}

ChatDoes(readable, full_message, r) ==
    ev' = [op |-> "chat", read |-> readable, text |-> full_message,
           ready |-> connected /\ websocket # "None",
           result |-> r.result, message |-> r.message]

\* the session delivers one chat message: _handle_chat_stream creates the
\* task, which reads the message and sends the envelope
ChatMessage ==
    /\ rpc # "none"
    /\ room = "connected"
    /\ \E readable \in BOOLEAN, full_message \in ChatTexts, sendable \in BOOLEAN :
        /\ sendable => (websocket = "open" /\ chan = "open")
        /\ ChatDoes(readable, full_message,
                    process_and_send(readable, full_message, sendable))
    /\ UNCHANGED <<obsVars, clientVars, local_audio_queue, voice_agent_queue, room, mpc,
                   player, lpc, lpending, ppc, rpc, rpending, sessionVars>>

(* main(), after rtc_session *)

\* voice_agent_listener.cancel(); voice_agent_publisher.cancel()
MainCancelsTasks ==
    /\ mpc = "rtc_session"
    /\ rpc = "returned"
    /\ lpc' = IF lpc \in {"recv", "put"} THEN "cancelling" ELSE lpc
    /\ ppc' = IF ppc \in {"publish", "get"} THEN "cancelling" ELSE ppc
    /\ mpc' = "await_listener"
    /\ ev' = Other("cancel_tasks")
    /\ UNCHANGED <<obsVars, clientVars, local_audio_queue, voice_agent_queue, room, player,
                   lpending, rpc, rpending, sessionVars>>

MainAwaitsListenerNoWait ==
    /\ mpc = "await_listener"
    /\ mpc' = "await_publisher"
    /\ ev' = Other("listener_awaited")
    /\ UNCHANGED <<obsVars, clientVars, local_audio_queue, voice_agent_queue, room, player,
                   lpc, lpending, ppc, rpc, rpending, sessionVars>>

MainAwaitsListener ==
    /\ mpc = "await_listener"
    /\ lpc \in {"done", "cancelled"}
    /\ mpc' = "await_publisher"
    /\ ev' = Other("listener_awaited")
    /\ UNCHANGED <<obsVars, clientVars, local_audio_queue, voice_agent_queue, room, player,
                   lpc, lpending, ppc, rpc, rpending, sessionVars>>

MainAwaitsPublisherRetries ==
    /\ mpc = "await_publisher"
    /\ ppc \in {"done", "cancelled", "failed"}
    /\ mpc' = IF connected THEN "cleanup" ELSE "va_connect"
    /\ ev' = Other("publisher_awaited")
    /\ UNCHANGED <<obsVars, clientVars, local_audio_queue, voice_agent_queue, room, player,
                   lpc, lpending, ppc, rpc, rpending, sessionVars>>

\* a publisher that failed re-raises here, into main's `except Exception`
MainAwaitsPublisher ==
    /\ mpc = "await_publisher"
    /\ ppc \in {"done", "cancelled", "failed"}
    /\ mpc' = "cleanup"
    /\ ev' = Other("publisher_awaited")
    /\ UNCHANGED <<obsVars, clientVars, local_audio_queue, voice_agent_queue, room, player,
                   lpc, lpending, ppc, rpc, rpending, sessionVars>>

\* finally: await voice_agent.disconnect()
MainDisconnects ==
    /\ mpc = "cleanup"
    /\ LET r == disconnect(websocket) IN
        /\ connected' = r.connected
        /\ websocket' = r.websocket
    /\ mpc' = "room_disconnect"
    /\ ev' = Other("disconnect")
    /\ UNCHANGED <<obsVars, chan, local_audio_queue, voice_agent_queue, room,
                   player, lpc, lpending, ppc, rpc, rpending, sessionVars>>

\* await room.disconnect(); player_task.cancel()
MainRoomDisconnects ==
    /\ mpc = "room_disconnect"
    /\ room' = "disconnected"
    /\ player' = IF player = "running" THEN "cancelling" ELSE player
    /\ mpc' = "await_player"
    /\ ev' = Other("room_disconnect")
    /\ UNCHANGED <<obsVars, clientVars, local_audio_queue, voice_agent_queue, lpc,
                   lpending, ppc, rpc, rpending, sessionVars>>

MainAwaitsPlayer ==
    /\ mpc = "await_player"
    /\ player \in {"failed", "cancelled"}
    /\ mpc' = "done"
    /\ ev' = Other("player_awaited")
    /\ UNCHANGED <<obsVars, clientVars, local_audio_queue, voice_agent_queue, room, player,
                   lpc, lpending, ppc, rpc, rpending, sessionVars>>

\* A whole run of main(), in which the track delivers MaxSessionFrames frames
\* and the agent MaxAgentAudio audio messages: fewer than a queue holds, so no
\* put suspends here (SpecRelay has the suspended puts).
Next ==
    /\ \/ PlayerStart \/ PlayerCallback \/ PlayerCancelled
       \/ MainRoomConnect \/ MainConnect
       \/ ParticipantJoins \/ TrackSubscribed \/ AgentCloses
       \/ RtcWaitParticipants \/ RtcFindTrack \/ RtcFrame \/ RtcStreamEnds
       \/ ListenerMessage \/ ListenerClosed \/ ListenerCancelled
       \/ ChatMessage
       \/ PublisherPublishes \/ PublisherFrame \/ PublisherCancelled
       \/ MainCancelsTasks \/ MainAwaitsListener \/ MainAwaitsPublisher
       \/ MainDisconnects \/ MainRoomDisconnects \/ MainAwaitsPlayer
    /\ UNCHANGED <<textVars, serverVars>>

Spec == Init /\ [][Next]_vars

----------------------------------------------------------------------------
(* The relay at work: main() is inside rtc_session's frame loop, the       *)
(* listener and the publisher run, the player opened the device or failed  *)
(* to.  The track and the agent deliver without limit.                     *)

RelayInit ==
    /\ blocksize = BLOCKSIZE
    /\ buffer = <<>>
    /\ HistIdle
    /\ websocket = "open"
    /\ connected = TRUE
    /\ chan = "open"
    /\ local_audio_queue = <<>>
    /\ voice_agent_queue = <<>>
    /\ room = "connected"
    /\ mpc = "rtc_session"
    /\ player \in {"running", "failed"}
    /\ lpc = "recv"
    /\ lpending = NoFrame
    /\ ppc = "get"
    /\ rpc = "loop"
    /\ rpending = NoFrame
    /\ participant_wait_time = 0
    /\ participants = TRUE
    /\ track_ready = TRUE
    /\ frames_left = Unbounded
    /\ audio_left = Unbounded
    /\ ev = Other("find_track")
    /\ TextIdle
    /\ ServerIdle

RelayNext ==
    /\ \/ PlayerCallback
       \/ AgentCloses
       \/ RtcFrame \/ RtcPutResumes
       \/ ListenerMessage \/ ListenerClosed \/ ListenerPutResumes
       \/ PublisherFrame
    /\ UNCHANGED <<textVars, serverVars>>

SpecRelay == RelayInit /\ [][RelayNext]_vars

----------------------------------------------------------------------------
(* The AudioBuffer under test: any blocksize, any calls in any order.      *)
(* ab_added is everything added so far, ab_out the data samples returned   *)
(* so far, frame by frame (padding left out), ab_mode the shape of the     *)
(* call sequence: "fill" while only add_frame was called, "drain" while    *)
(* get_chunk calls follow the adds, "done" once such a get_chunk returned  *)
(* nothing, "mixed" for any other order of calls.  The relay stays idle.   *)

Frames(n) == UNION {[1..k -> SampleVals] : k \in 0..n}

BufInit ==
    /\ blocksize \in 1..MaxBlocksize
    /\ buffer = <<>>
    /\ ab_op = "init"
    /\ ab_ret = NoChunk
    /\ ab_pre = <<>>
    /\ ab_added = <<>>
    /\ ab_out = <<>>
    /\ ab_mode = "fill"
    /\ trace = NoTrace
    /\ RelayIdle
    /\ TextIdle
    /\ ServerIdle

BufAddFrame ==
    \E f \in Frames(MaxFrameLen) :
        /\ Len(ab_added) + Len(f) <= MaxAdded
        /\ buffer' = add_frame(buffer, Arr(f))
        /\ ab_op' = "add_frame"
        /\ ab_ret' = NoChunk
        /\ ab_pre' = buffer
        /\ ab_added' = ab_added \o f
        /\ ab_mode' = IF ab_mode = "fill" THEN "fill" ELSE "mixed"
        /\ UNCHANGED <<blocksize, ab_out>>

BufGetChunk ==
    LET r == get_chunk(buffer, blocksize) IN
        /\ buffer' = r.buffer
        /\ ab_op' = "get_chunk"
        /\ ab_ret' = r.chunk
        /\ ab_pre' = buffer
        /\ ab_out' = IF r.chunk.some THEN Append(ab_out, Expand(r.chunk.data))
                                       ELSE ab_out
        /\ ab_mode' = IF ab_mode \in {"fill", "drain"}
                      THEN (IF r.chunk.some THEN "drain" ELSE "done")
                      ELSE "mixed"
        /\ UNCHANGED <<blocksize, ab_added>>

BufGetPaddedChunk ==
    LET r == get_padded_chunk(buffer, blocksize) IN
        /\ buffer' = r.buffer
        /\ ab_op' = "get_padded_chunk"
        /\ ab_ret' = r.chunk
        /\ ab_pre' = buffer
        /\ ab_out' = IF buffer = <<>> THEN ab_out
                      ELSE Append(ab_out,
                                  Expand(ArrTake(r.chunk.data, Min(ArrLen(buffer), blocksize))))
        /\ ab_mode' = "mixed"
        /\ UNCHANGED <<blocksize, ab_added>>

BufNext ==
    (BufAddFrame \/ BufGetChunk \/ BufGetPaddedChunk) /\ UNCHANGED <<relayVars, trace, textVars,
                                                                   serverVars>>

SpecBuffer == BufInit /\ [][BufNext]_vars

----------------------------------------------------------------------------
(* The VoiceAgentClient under test: its methods called in any order on one *)
(* client, with frames and audio messages of several lengths.  The queue   *)
(* is the client's output_queue; nothing takes from it.                    *)

ClientFrames ==
    {<<[val |-> 1, cnt |-> n]>> : n \in (BLOCKSIZE - MaxLenDelta)..(BLOCKSIZE + MaxLenDelta)}

ClientMessages ==
    {AudioMessage(<<[val |-> 1, cnt |-> n]>>) :
        n \in (AgentPcmLen - MaxLenDelta)..(AgentPcmLen + MaxLenDelta)}
    \cup {BadAudioMessage, TextMessage("hello"), PingMessage, NotJson}

ClientInit == Init

\* connect() and, when it returned True, listen_for_responses() started
ClientConnect ==
    /\ websocket = "None"
    /\ \E opened \in BOOLEAN, received \in BOOLEAN, message \in FirstMessages :
        LET r == connect(websocket, connected, opened, received, message) IN
        /\ websocket' = r.websocket
        /\ connected' = r.connected
        /\ chan' = IF ~opened THEN chan ELSE IF received THEN "open" ELSE "closed_err"
        /\ lpc' = IF r.ret THEN "recv" ELSE lpc
        /\ ev' = [op |-> "connect", opened |-> opened, received |-> opened /\ received,
                  message |-> message, ret |-> r.ret]
    /\ UNCHANGED <<obsVars, local_audio_queue, voice_agent_queue, room, mpc, player,
                   lpending, ppc, rpc, rpending, sessionVars>>

ClientSendAudioDoes(audio_data, r) ==
    /\ websocket' = r.websocket
    /\ connected' = r.connected
    /\ ev' = [op |-> "send_audio", n |-> ArrLen(audio_data),
              ready |-> connected /\ websocket # "None",
              result |-> r.result, message |-> r.message]

\* send_audio(audio_data)
ClientSendAudio ==
    /\ \E audio_data \in ClientFrames, sendable \in BOOLEAN :
        /\ sendable => (websocket = "open" /\ chan = "open")
        /\ ClientSendAudioDoes(audio_data,
                               send_audio(websocket, connected, audio_data, sendable))
    /\ UNCHANGED <<obsVars, chan, local_audio_queue, voice_agent_queue, room, mpc, player,
                   lpc, lpending, ppc, rpc, rpending, sessionVars>>

ClientListens == ListenerMessageFrom(ClientMessages)

\* disconnect(); pre is the client as the call found it
ClientDisconnect ==
    /\ LET r == disconnect(websocket) IN
        /\ connected' = r.connected
        /\ websocket' = r.websocket
    /\ ev' = [op |-> "disconnect",
              pre |-> [websocket |-> websocket, connected |-> connected]]
    /\ UNCHANGED <<obsVars, chan, local_audio_queue, voice_agent_queue, room, mpc,
                   player, lpc, lpending, ppc, rpc, rpending, sessionVars>>

ClientNext ==
    /\ \/ ClientConnect \/ ClientSendAudio \/ ClientListens \/ ClientDisconnect
       \/ AgentCloses \/ ListenerClosed
    /\ UNCHANGED <<textVars, serverVars>>

SpecClient == ClientInit /\ [][ClientNext]_vars

----------------------------------------------------------------------------
(* An observed run of the relay: a Ready client on an open channel, the     *)
(* listener and the publisher running, no output device (audio_player has  *)
(* ended, so nothing takes from the monitor queue).  The track delivers    *)
(* MaxScenarioFrames frames and the agent MaxScenarioAudio audio messages, *)
(* of two kinds each so that their order shows.                            *)

ScenarioFrames == {<<[val |-> v, cnt |-> BLOCKSIZE]>> : v \in {1, 2}}

ScenarioMessages ==
    {AudioMessage(<<[val |-> v, cnt |-> AgentPcmLen]>>) : v \in {1, 2}}
    \cup {TextMessage("hello")}

ScenarioInit ==
    /\ blocksize = BLOCKSIZE
    /\ buffer = <<>>
    /\ ab_op = "init"
    /\ ab_ret = NoChunk
    /\ ab_pre = <<>>
    /\ ab_added = <<>>
    /\ ab_out = <<>>
    /\ ab_mode = "fill"
    /\ trace = [NoTrace EXCEPT !.on = TRUE]
    /\ websocket = "open"
    /\ connected = TRUE
    /\ chan = "open"
    /\ local_audio_queue = <<>>
    /\ voice_agent_queue = <<>>
    /\ room = "connected"
    /\ mpc = "rtc_session"
    /\ player = "failed"
    /\ lpc = "recv"
    /\ lpending = NoFrame
    /\ ppc = "get"
    /\ rpc = "loop"
    /\ rpending = NoFrame
    /\ participant_wait_time = 0
    /\ participants = TRUE
    /\ track_ready = TRUE
    /\ frames_left = MaxScenarioFrames
    /\ audio_left = MaxScenarioAudio
    /\ ev = Other("find_track")
    /\ TextIdle
    /\ ServerIdle

ScenarioFrame == RtcFrameFrom(ScenarioFrames)

ScenarioListens == ListenerMessageFrom(ScenarioMessages)

ScenarioNext == (ScenarioFrame \/ ScenarioListens \/ PublisherFrame) /\ UNCHANGED <<textVars, serverVars>>

SpecScenario == ScenarioInit /\ [][ScenarioNext]_vars

----------------------------------------------------------------------------
(* The player at work: the device is open and calls the callback at any    *)
(* time while rtc_session puts frames of several lengths on the monitor    *)
(* queue.  The voice-agent channel has failed and the listener has ended,  *)
(* so send_audio returns at once.                                          *)

PlayerFrames ==
    {<<[val |-> v, cnt |-> n]>> :
        v \in {1, 2}, n \in (BLOCKSIZE - MaxLenDelta)..(BLOCKSIZE + MaxLenDelta)}

PlayerInit ==
    /\ blocksize = BLOCKSIZE
    /\ buffer = <<>>
    /\ HistIdle
    /\ websocket = "closed"
    /\ connected = FALSE
    /\ chan = "closed_err"
    /\ local_audio_queue = <<>>
    /\ voice_agent_queue = <<>>
    /\ room = "connected"
    /\ mpc = "rtc_session"
    /\ player = "running"
    /\ lpc = "done"
    /\ lpending = NoFrame
    /\ ppc = "get"
    /\ rpc = "loop"
    /\ rpending = NoFrame
    /\ participant_wait_time = 0
    /\ participants = TRUE
    /\ track_ready = TRUE
    /\ frames_left = MaxPlayerFrames
    /\ audio_left = 0
    /\ ev = Other("find_track")
    /\ TextIdle
    /\ ServerIdle

PlayerFeed == RtcFrameFrom(PlayerFrames)

PlayerNext == (PlayerFeed \/ PlayerCallback) /\ UNCHANGED <<textVars, serverVars>>

SpecPlayer == PlayerInit /\ [][PlayerNext]_vars

----------------------------------------------------------------------------
(* examples/text_streaming.py: TextStreamingApp and its main().  A task is *)
(* "pending" from create_task until its coroutine ends, "finished" until   *)
(* the event loop has run its done callback, and "called_back" after.  The *)
(* relay of play_audio_stream.py stays idle.                               *)

Topics == {"chat", "announcements", "typing", "json-data"}

NewTask(topic) ==
    [st |-> "pending", topic |-> topic, cancel |-> FALSE, outcome |-> "none", removed |-> 0]

\* list.remove(x): removes the first item equal to x and raises ValueError
\* when there is none
RECURSIVE list_remove(_, _)
list_remove(l, x) ==
    IF l = <<>> THEN [list |-> <<>>, raised |-> TRUE]
    ELSE IF Head(l) = x THEN [list |-> Tail(l), raised |-> FALSE]
    ELSE LET r == list_remove(Tail(l), x)
         IN  [list |-> <<Head(l)>> \o r.list, raised |-> r.raised]

\* task.cancel(): requests the cancellation of a task that is not done
task_cancel(task) ==
    IF task.st = "pending" THEN [task EXCEPT !.cancel = TRUE] ELSE task

cancel_first(ts, l) ==
    IF l = <<>> THEN ts ELSE [ts EXCEPT ![Head(l)] = task_cancel(@)]

\* for task in self.active_tasks: task.cancel()
RECURSIVE cancel_all(_, _)
cancel_all(ts, l) ==
    IF l = <<>> THEN ts
    ELSE cancel_all([ts EXCEPT ![Head(l)] = task_cancel(@)], Tail(l))

\* await app.connect(): the handlers are registered, room.connect returns or
\* raises (main's finally then runs cleanup)
AppConnect ==
    /\ app_pc = "connect"
    /\ \E ok \in BOOLEAN :
        /\ app_room' = IF ok THEN "connected" ELSE app_room
        /\ app_pc' = IF ok THEN "running" ELSE "cleanup"
    /\ ev' = Other("app_connect")
    /\ UNCHANGED <<active_tasks, tasks>>

\* `await asyncio.Future()` is cancelled (the application is interrupted)
AppInterrupted ==
    /\ app_pc = "running"
    /\ app_pc' = "cleanup"
    /\ ev' = Other("app_interrupted")
    /\ UNCHANGED <<active_tasks, tasks, app_room>>

\* _handle_chat_stream and the three handlers like it: create_task, append,
\* add_done_callback
HandleStream ==
    /\ app_room = "connected"
    /\ Len(tasks) < MaxTextTasks
    /\ \E topic \in Topics :
        /\ tasks' = Append(tasks, NewTask(topic))
        /\ ev' = [op |-> "handle_stream", topic |-> topic, task |-> Len(tasks) + 1]
    /\ active_tasks' = Append(active_tasks, Len(tasks) + 1)
    /\ UNCHANGED <<app_room, app_pc>>

\* the coroutine of a task ends: cancelled when cancellation was requested
\* (CancelledError passes `except Exception`), otherwise it returns, with or
\* without an error logged
TaskEnds ==
    /\ \E t \in 1..Len(tasks) :
        /\ tasks[t].st = "pending"
        /\ \E o \in {"ok", "error", "cancelled"} :
            /\ (o = "cancelled") <=> tasks[t].cancel
            /\ tasks' = [tasks EXCEPT ![t].st = "finished", ![t].outcome = o]
            /\ ev' = [op |-> "task_ends", task |-> t, outcome |-> o]
    /\ UNCHANGED <<active_tasks, app_room, app_pc>>

\* the event loop runs the task's done callback:
\* lambda _: self.active_tasks.remove(task)
TaskDoneCallbackDoes(t, r) ==
    /\ active_tasks' = r.list
    /\ tasks' = [tasks EXCEPT ![t].st = "called_back",
                              ![t].removed = IF r.raised THEN @ ELSE @ + 1]
    /\ ev' = [op |-> "done_callback", task |-> t, raised |-> r.raised]

TaskDoneCallback ==
    /\ \E t \in 1..Len(tasks) :
        /\ tasks[t].st = "finished"
        /\ TaskDoneCallbackDoes(t, list_remove(active_tasks, t))
    /\ UNCHANGED <<app_room, app_pc>>

\* disconnect(), up to its await: every task of the list is cancelled
AppDisconnect ==
    /\ app_pc = "cleanup"
    /\ tasks' = cancel_all(tasks, active_tasks)
    /\ app_pc' = "room_disconnect"
    /\ ev' = Other("app_disconnect")
    /\ UNCHANGED <<active_tasks, app_room>>

\* await self.room.disconnect()
AppRoomDisconnects ==
    /\ app_pc = "room_disconnect"
    /\ app_room' = "disconnected"
    /\ app_pc' = "done"
    /\ ev' = Other("app_room_disconnect")
    /\ UNCHANGED <<active_tasks, tasks>>

TextInit == Init

TextNext ==
    /\ \/ AppConnect \/ AppInterrupted \/ HandleStream \/ TaskEnds \/ TaskDoneCallback
       \/ AppDisconnect \/ AppRoomDisconnects
    /\ UNCHANGED <<obsVars, clientVars, local_audio_queue, voice_agent_queue, room, mpc,
                   player, lpc, lpending, ppc, rpc, rpending, sessionVars, serverVars>>

SpecText == TextInit /\ [][TextNext]_vars

----------------------------------------------------------------------------
(* examples/server.py: LiveKitHandler serving one request after another.   *)
(* A query string or a JSON object is a function from some of the keys to  *)
(* strings; os.getenv gives "None" for a variable that is not set.  The    *)
(* connection to the client works: every write succeeds.                   *)

ParamKeys == {"identity", "room", "name"}

ParamStrings == {"", "a", "b"}

ParamMaps == UNION {[K -> ParamStrings] : K \in SUBSET ParamKeys}

EnvStrings == {"None", "", "k"}

\* parse_qs(query): blank values are left out, every other value is a list
parse_qs(query) ==
    [k \in {j \in DOMAIN query : query[j] # ""} |-> <<query[k]>>]

\* d.get(key, default)
data_get(d, key, default) == IF key \in DOMAIN d THEN d[key] ELSE default

\* x or y, for strings
str_or(x, y) == IF x = "" THEN y ELSE x

\* send_json_response(data, status): one response, written whole
send_json_response(data, status) ==
    [status |-> status, json |-> TRUE, data |-> data]

NoToken == [some |-> FALSE, identity |-> "", name |-> "", room |-> "", api_key |-> ""]

\* generate_access_token(identity, room, name): signed says whether
\* api.AccessToken(...).to_jwt() returns (it is caught when it raises).
\* Gives the token (NoToken for None) and whether AccessToken was called.
generate_access_token(env, identity, room_name, name, signed) ==
    IF env.LIVEKIT_API_KEY \in {"None", ""} \/ env.LIVEKIT_API_SECRET \in {"None", ""}
    THEN [token |-> NoToken, built |-> FALSE]
    ELSE IF signed
    THEN [token |-> [some |-> TRUE, identity |-> identity, name |-> name, room |-> room_name,
                     api_key |-> env.LIVEKIT_API_KEY],
          built |-> TRUE]
    ELSE [token |-> NoToken, built |-> TRUE]

\* handle_token_request, from `if not identity or not room:` on
token_response(env, identity, room_name, name, signed) ==
    IF identity = "" \/ room_name = ""
    THEN [responses |-> <<send_json_response([error |-> "missing parameters"], 400)>>,
          generated |-> FALSE]
    ELSE LET t == generate_access_token(env, identity, room_name, name, signed) IN
         IF t.token.some
         THEN [responses |-> <<send_json_response([token |-> t.token, identity |-> identity,
                                                    room |-> room_name, name |-> name], 200)>>,
               generated |-> t.built]
         ELSE [responses |-> <<send_json_response([error |-> "failed to generate"], 500)>>,
               generated |-> t.built]

\* handle_token_request(parsed_path, method): length says whether the request
\* has a Content-Length header, body is the JSON text that follows it.  An
\* exception of the parameter parsing reaches `except Exception` (line 110).
handle_token_request(available, env, method, query, length, body, signed) ==
    IF ~available
    THEN [responses |-> <<send_json_response([error |-> "not available"], 500)>>,
          generated |-> FALSE]
    ELSE IF method = "GET"
    THEN LET params == parse_qs(query)
             identity == data_get(params, "identity", <<"">>)[1]
         IN  token_response(env, identity,
                            data_get(params, "room", <<"">>)[1],
                            str_or(data_get(params, "name", <<"">>)[1], identity),
                            signed)
    ELSE IF ~length \/ ~body.json \/ ~body.dict
    THEN [responses |-> <<send_json_response([error |-> "generation failed"], 500)>>,
          generated |-> FALSE]
    ELSE LET identity == data_get(body.fields, "identity", "")
         IN  token_response(env, identity,
                            data_get(body.fields, "room", ""),
                            str_or(data_get(body.fields, "name", ""), identity),
                            signed)

Paths == {"/api/token", "/mic_publisher.html"}

ServerInit ==
    /\ blocksize = BLOCKSIZE
    /\ buffer = <<>>
    /\ HistIdle
    /\ RelayIdle
    /\ TextIdle
    /\ LIVEKIT_AVAILABLE \in BOOLEAN
    /\ environ \in [LIVEKIT_API_KEY : EnvStrings, LIVEKIT_API_SECRET : EnvStrings]
    /\ request = NoRequest
    /\ responses = <<>>
    /\ generated = FALSE

ServerDoes(r) ==
    /\ responses' = r.responses
    /\ generated' = r.generated

\* do_GET: the token endpoint, or a static file (found or not)
do_GET ==
    \E path \in Paths, query \in ParamMaps, signed \in BOOLEAN :
        /\ request' = [method |-> "GET", path |-> path, query |-> query]
        /\ IF path = "/api/token"
           THEN ServerDoes(handle_token_request(LIVEKIT_AVAILABLE, environ, "GET", query,
                                                FALSE, NotJson, signed))
           ELSE \E found \in BOOLEAN :
                    ServerDoes([responses |-> <<[status |-> IF found THEN 200 ELSE 404,
                                                 json |-> FALSE, data |-> <<>>]>>,
                                generated |-> FALSE])

\* do_POST: the token endpoint, or 404
do_POST ==
    \E path \in Paths, length \in BOOLEAN, signed \in BOOLEAN,
       body \in {NotJson, JsonOther} \cup {JsonObject(f) : f \in ParamMaps} :
        /\ ~length => body = NotJson
        /\ request' = [method |-> "POST", path |-> path, length |-> length, body |-> body]
        /\ IF path = "/api/token"
           THEN ServerDoes(handle_token_request(LIVEKIT_AVAILABLE, environ, "POST", <<>>,
                                                length, body, signed))
           ELSE ServerDoes([responses |-> <<[status |-> 404, json |-> FALSE, data |-> <<>>]>>,
                            generated |-> FALSE])

ServerNext ==
    /\ \/ do_GET
       \/ do_POST
    /\ UNCHANGED <<abVars, relayVars, trace, textVars, LIVEKIT_AVAILABLE, environ>>

SpecServer == ServerInit /\ [][ServerNext]_vars

----------------------------------------------------------------------------
(* Claims about the AudioBuffer, checked under SpecBuffer *)

RECURSIVE Flatten(_)
Flatten(ss) == IF ss = <<>> THEN <<>> ELSE ss[1] \o Flatten(Tail(ss))

Zeros(n) == [i \in 1..n |-> 0]

\* C1: get_chunk on a buffer of at least blocksize samples returns exactly the
\* first blocksize samples in order and removes exactly those from the front;
\* on a shorter buffer it returns nothing and leaves the buffer unchanged.
C1_GetChunk ==
    ab_op = "get_chunk" =>
        LET pre == Expand(ab_pre) IN
        IF Len(pre) >= blocksize
        THEN /\ ab_ret.some
             /\ Expand(ab_ret.data) = SubSeq(pre, 1, blocksize)
             /\ Expand(buffer) = SubSeq(pre, blocksize + 1, Len(pre))
        ELSE /\ ~ab_ret.some
             /\ buffer = ab_pre

C1_Witness ==
    /\ ab_op = "get_chunk"
    /\ ab_ret.some
    /\ Len(ab_ret.data) > 1
    /\ buffer # <<>>

\* C2: after add_frame calls of total length L >= blocksize, get_chunk called
\* until it returns nothing has returned exactly L \div blocksize frames, each
\* of blocksize samples, that concatenate to the first (L \div blocksize) *
\* blocksize samples added, and at most blocksize - 1 samples stay buffered.
C2_DrainByChunks ==
    (ab_mode = "done" /\ Len(ab_added) >= blocksize) =>
        LET n == Len(ab_added) \div blocksize IN
        /\ Len(ab_out) = n
        /\ \A i \in 1..Len(ab_out) : Len(ab_out[i]) = blocksize
        /\ Flatten(ab_out) = SubSeq(ab_added, 1, n * blocksize)
        /\ ArrLen(buffer) <= blocksize - 1
        /\ Expand(buffer) = SubSeq(ab_added, n * blocksize + 1, Len(ab_added))

C2_Witness ==
    /\ ab_mode = "done"
    /\ Len(ab_out) >= 2
    /\ blocksize >= 2
    /\ buffer # <<>>

\* C3: get_padded_chunk on a buffer of k < blocksize samples (k = 0 too)
\* returns those k samples followed by blocksize - k zeros and leaves the
\* buffer empty.
C3_PaddedShort ==
    (ab_op = "get_padded_chunk" /\ ArrLen(ab_pre) < blocksize) =>
        /\ ab_ret.some
        /\ Expand(ab_ret.data) = Expand(ab_pre) \o Zeros(blocksize - ArrLen(ab_pre))
        /\ buffer = <<>>

C3_Witness ==
    /\ ab_op = "get_padded_chunk"
    /\ ArrLen(ab_pre) > 0
    /\ ArrLen(ab_pre) < blocksize
    /\ \E i \in 1..Len(ab_pre) : ab_pre[i].val # 0

\* C4 as stated: get_padded_chunk in any buffer state returns exactly
\* blocksize samples and leaves the buffer empty.
C4_PaddedDrainsAll ==
    ab_op = "get_padded_chunk" =>
        /\ ArrLen(ab_ret.data) = blocksize
        /\ buffer = <<>>

\* C4 amended: get_padded_chunk in any buffer state returns exactly blocksize
\* samples and removes the first min(len, blocksize) samples, which head the
\* returned frame; the samples beyond blocksize stay buffered in order, so the
\* buffer is empty afterwards exactly when it held at most blocksize samples.
C4_PaddedTakesOneBlock ==
    ab_op = "get_padded_chunk" =>
        LET pre == Expand(ab_pre)
            available == Min(Len(pre), blocksize)
        IN  /\ ab_ret.some
            /\ ArrLen(ab_ret.data) = blocksize
            /\ Expand(ab_ret.data) = SubSeq(pre, 1, available) \o Zeros(blocksize - available)
            /\ Expand(buffer) = SubSeq(pre, available + 1, Len(pre))
            /\ (buffer = <<>>) <=> (Len(pre) <= blocksize)

C4_Witness ==
    /\ ab_op = "get_padded_chunk"
    /\ ArrLen(ab_pre) > blocksize
    /\ buffer # <<>>

----------------------------------------------------------------------------
(* Claims about VoiceAgentClient.connect and send_audio, checked under Spec *)

IsReadyMessage(m) ==
    /\ m.json
    /\ m.dict
    /\ "type" \in DOMAIN m.fields
    /\ m.fields.type = "ready"

\* C5 as stated: connect returns success and sets connected only when the
\* first inbound message is exactly {"type":"ready"}; after any other first
\* message, a channel error or a close it returns failure and connected stays
\* False.
C5_ConnectOnExactReady ==
    ev.op = "connect" =>
        /\ ev.ret => connected
        /\ ~(ev.received /\ ev.message = ReadyMessage) => (~ev.ret /\ ~connected)

\* C5 amended: connect returns success and sets connected exactly when a first
\* message arrived that is a JSON object whose "type" is "ready" (further
\* fields of the object are ignored); otherwise it returns failure and
\* connected stays False.
C5_ConnectOnReadyType ==
    ev.op = "connect" =>
        /\ ev.ret <=> (ev.received /\ IsReadyMessage(ev.message))
        /\ connected <=> ev.ret
        /\ ev.ret => websocket = "open"

C5_Witness ==
    /\ ev.op = "connect"
    /\ ev.ret
    /\ connected
    /\ ev.message = ReadyMessageExtra

C7_SendFailureSwallowed ==
    [][(frames_left' # frames_left /\ ev'.send = "failed") =>
            /\ connected /\ connected'
            /\ websocket' = websocket
            /\ chan' = chan
            /\ ev'.message = NoMessage
            /\ rpc' \in {"loop", "put"}
            /\ \/ Len(local_audio_queue') = Len(local_audio_queue) + 1
               \/ rpc' = "put"]_vars

C7_Witness ==
    /\ ev.op = "frame"
    /\ ev.send = "failed"
    /\ connected
    /\ websocket = "open"
    /\ chan = "open"
    /\ rpc = "loop"

----------------------------------------------------------------------------
(* Claims about the two queues, checked under SpecRelay *)

\* C8: when the inbound queue holds QueueMaxSize frames and the listener
\* decodes one more audio message, the frame is dropped with a warning, the
\* queue still holds the same frames and the receive loop is at its next
\* message, not waiting for the queue.
C8_ListenerDropsWhenFull ==
    (ev.op = "listen" /\ ev.do = "put" /\ ev.full) =>
        /\ ev.dropped
        /\ lpc = "recv"
        /\ lpending = NoFrame
        /\ Len(voice_agent_queue) = QueueMaxSize

\* C9: when the local-monitor queue holds QueueMaxSize frames, rtc_session
\* drops the newest frame with a warning and is at its next session frame,
\* not waiting for the queue.
C9_IntakeDropsWhenFull ==
    (ev.op = "frame" /\ ev.full) =>
        /\ ev.dropped
        /\ rpc = "loop"
        /\ rpending = NoFrame
        /\ Len(local_audio_queue) = QueueMaxSize

\* C10: each of the two queues holds at most QueueMaxSize (50) frames, in
\* every state the intake loop, the receive loop, the publisher and the
\* playback callback can reach.
C10_QueuesBounded ==
    /\ Len(local_audio_queue) <= QueueMaxSize
    /\ Len(voice_agent_queue) <= QueueMaxSize

C10_Witness ==
    /\ Len(local_audio_queue) = QueueMaxSize
    /\ Len(voice_agent_queue) = QueueMaxSize
    /\ rpc = "put"
    /\ lpc = "put"
    /\ player = "running"

----------------------------------------------------------------------------
(* Claims about listen_for_responses, checked under Spec *)

\* C11: whenever listen_for_responses has returned because the channel
\* closed (normally or not) or because of a receive or protocol error,
\* connected is False.
C11_ListenerReturnClosesClient ==
    lpc = "done" => ~connected

\* C12 as stated: a malformed inbound message is discarded, the receive loop
\* goes on to the next message and the client stays Ready.
C12_MalformedDiscarded ==
    (ev.op = "listen" /\ ev.kind = "malformed") => (lpc = "recv" /\ connected)

\* C12 amended: a malformed inbound message (not JSON, not an object, audio
\* data that does not decode) raises out of the receive loop: nothing is
\* queued, listen_for_responses returns and connected is False; the channel
\* itself is left as it was.
C12_MalformedEndsListener ==
    [][(ev' # ev /\ ev'.op = "listen" /\ ev'.kind = "malformed") =>
            /\ ev'.do = "raise"
            /\ lpc' = "done"
            /\ ~connected'
            /\ voice_agent_queue' = voice_agent_queue
            /\ lpending' = NoFrame
            /\ websocket' = websocket
            /\ chan' = chan]_vars

C12_Witness ==
    /\ ev.op = "listen"
    /\ ev.kind = "malformed"
    /\ lpc = "done"
    /\ ~connected
    /\ websocket = "open"
    /\ chan = "open"

\* C13: a message of an unrecognized type is ignored and a "text" message is
\* only printed: the inbound queue, connected and the websocket are unchanged
\* and the receive loop is at its next message.
C13_TextAndUnknownLeaveState ==
    [][(ev' # ev /\ ev'.op = "listen" /\ ev'.kind \in {"text", "other"}) =>
            /\ ev'.do = (IF ev'.kind = "text" THEN "print" ELSE "ignore")
            /\ voice_agent_queue' = voice_agent_queue
            /\ lpending' = lpending
            /\ connected' = connected
            /\ websocket' = websocket
            /\ chan' = chan
            /\ lpc' = "recv"]_vars

C13_Witness ==
    /\ ev.op = "listen"
    /\ ev.kind = "other"
    /\ ev.do = "ignore"
    /\ lpc = "recv"
    /\ connected
    /\ voice_agent_queue # <<>>

----------------------------------------------------------------------------
(* Claims about main(), checked under Spec *)

\* C18: in a run of main() the voice-agent connect is attempted at most once
\* (main() is at its connect only once), connected becomes True only at that
\* connect, and the receive loop is started only there, never again.
C18_NoReconnect ==
    [][/\ (mpc' = "va_connect" /\ mpc # "va_connect") => mpc = "room_connect"
       /\ mpc' = "room_connect" => mpc = "room_connect"
       /\ (ev'.op = "connect" /\ ev' # ev) => (mpc = "va_connect" /\ mpc' # "va_connect")
       /\ (connected' /\ ~connected) => (mpc = "va_connect" /\ ev'.op = "connect")
       /\ (lpc' = "recv" /\ lpc \notin {"recv", "put"}) =>
              (mpc = "va_connect" /\ ev'.op = "connect")]_vars

C18_Witness ==
    /\ lpc = "done"
    /\ ~connected
    /\ chan = "closed_err"
    /\ mpc = "rtc_session"
    /\ ev.op = "frame"
    /\ ev.send = "skipped"

\* C19: for one chat message the text bridge sends at most one message to the
\* voice agent, the {type: "text", data: <message>} envelope of the full
\* message, and only when the message was read and the send succeeded;
\* whatever happens, the client, the queues and the tasks are as before.
C19_TextBridgeBestEffort ==
    [][(ev' # ev /\ ev'.op = "chat") =>
            /\ ev'.message \in {NoMessage, TextMessage(ev'.text)}
            /\ (ev'.message # NoMessage) <=> (ev'.read /\ ev'.result = "sent")
            /\ UNCHANGED <<obsVars, clientVars, local_audio_queue, voice_agent_queue,
                           room, mpc, player, lpc, lpending, ppc, rpc, rpending,
                           sessionVars>>]_vars

C19_Witness ==
    /\ ev.op = "chat"
    /\ ~ev.read
    /\ ev.message = NoMessage
    /\ websocket = "open"
    /\ chan = "open"
    /\ connected
    /\ lpc = "recv"
    /\ rpc = "loop"

----------------------------------------------------------------------------
(* Claims about the VoiceAgentClient's methods, checked under SpecClient *)

\* C14: disconnect from any state leaves connected False and the websocket
\* closed if there was one, and a second disconnect changes nothing more.
C14_DisconnectIdempotent ==
    [][(ev' # ev /\ ev'.op = "disconnect") =>
            /\ ~connected'
            /\ websocket' = (IF websocket = "None" THEN "None" ELSE "closed")
            /\ ev.op = "disconnect" => (websocket' = websocket /\ connected' = connected)
            /\ chan' = chan
            /\ lpc' = lpc
            /\ voice_agent_queue' = voice_agent_queue]_vars

C14_Witness ==
    /\ ev.op = "disconnect"
    /\ ev.pre.websocket = "closed"
    /\ ~ev.pre.connected
    /\ websocket = "closed"
    /\ ~connected

Round(a, b) == (2 * a + b) \div (2 * b)

\* C17 as stated: a frame of N samples is resampled to round(N * 16000 /
\* 48000) samples by send_audio and an audio message of N samples to
\* round(N * 48000 / 24000) samples by listen_for_responses.
C17_ResampledLengthRounded ==
    /\ (ev.op = "send_audio" /\ ev.result = "sent") =>
           ArrLen(ev.message.fields.data.pcm) =
               Round(ev.n * VOICE_AGENT_INPUT_RATE, SAMPLERATE)
    /\ (ev.op = "listen" /\ ev.do = "put") =>
           ev.out = Round(ev.n * SAMPLERATE, VOICE_AGENT_OUTPUT_RATE)

\* C17 amended: the resampled length is the quotient truncated, not rounded:
\* N * 16000 \div 48000 samples in send_audio, N * 48000 \div 24000 (that is,
\* 2 * N) in listen_for_responses.
C17_ResampledLengthTruncated ==
    /\ (ev.op = "send_audio" /\ ev.result = "sent") =>
           ArrLen(ev.message.fields.data.pcm) =
               (ev.n * VOICE_AGENT_INPUT_RATE) \div SAMPLERATE
    /\ (ev.op = "listen" /\ ev.kind = "audio") =>
           /\ ev.do = "put"
           /\ ev.out = (ev.n * SAMPLERATE) \div VOICE_AGENT_OUTPUT_RATE
           /\ ev.out = 2 * ev.n

C17_Witness ==
    /\ ev.op = "send_audio"
    /\ ev.result = "sent"
    /\ ev.n % 3 = 2
    /\ ArrLen(ev.message.fields.data.pcm) * 3 = ev.n - 2
    /\ voice_agent_queue # <<>>
    /\ ArrLen(voice_agent_queue[1]) = 2 * (AgentPcmLen + 1)

----------------------------------------------------------------------------
(* Claims about the order of frames, checked under SpecScenario *)

\* C15: with a Ready client and n <= 50 frames delivered, the relay has made
\* exactly n send_audio calls, the i-th for the i-th frame, each building the
\* frame resampled to a third of its length (160 samples for 480) as its one
\* audio message, and the monitor queue holds the n frames, unmodified, in
\* delivery order.
C15_RelayPerFrame ==
    LET n == Len(trace.fed) IN
    /\ n = MaxScenarioFrames - frames_left
    /\ Len(trace.sent) = n
    /\ \A i \in 1..n :
          /\ trace.sent[i].result \in {"sent", "failed"}
          /\ trace.sent[i].result = "sent" =>
                 trace.sent[i].message =
                     AudioMessage(<<[val |-> trace.fed[i][1].val,
                                    cnt |-> ArrLen(trace.fed[i]) \div 3]>>)
          /\ trace.sent[i].result = "failed" => trace.sent[i].message = NoMessage
    /\ local_audio_queue = trace.fed

C15_Witness ==
    /\ Len(trace.fed) = MaxScenarioFrames
    /\ trace.fed[1] # trace.fed[2]
    /\ \A i \in 1..Len(trace.sent) :
          /\ trace.sent[i].result = "sent"
          /\ ArrLen(trace.sent[i].message.fields.data.pcm) = 160
    /\ Len(local_audio_queue) = MaxScenarioFrames

Doubled(pcms) ==
    [i \in 1..Len(pcms) |->
        <<[val |-> pcms[i][1].val, cnt |-> 2 * ArrLen(pcms[i])]>>]

Pending == IF lpc = "put" THEN <<lpending>> ELSE <<>>

\* C16: the n <= 50 audio messages of the agent reach the inbound queue as n
\* frames of twice their length, in arrival order, and the publisher takes
\* and captures them in that order: the frames captured, followed by the
\* frames still queued, are the doubled messages in arrival order (with the
\* one frame missing whose capture failed, after which the publisher has
\* ended).
C16_InboundOrderKept ==
    LET D == Doubled(trace.heard)
        P == trace.published
        rest == voice_agent_queue \o Pending
    IN  /\ Len(trace.heard) = MaxScenarioAudio - audio_left
        /\ ppc = "get" => P \o rest = D
        /\ ppc = "done" =>
               /\ Len(D) = Len(P) + 1 + Len(rest)
               /\ SubSeq(D, 1, Len(P)) = P
               /\ SubSeq(D, Len(P) + 2, Len(D)) = rest

C16_Witness ==
    /\ Len(trace.heard) = MaxScenarioAudio
    /\ trace.heard[1] # trace.heard[2]
    /\ Len(trace.published) = 2
    /\ Len(voice_agent_queue) = 1
    /\ ArrLen(voice_agent_queue[1]) = 2 * AgentPcmLen
    /\ ppc = "get"

----------------------------------------------------------------------------
(* Claims about the failure handling of the relay loops *)

\* C21: in the relay loops an error on a single frame is logged and the loop
\* goes on with the next frame: after capture_frame raised for a frame the
\* publisher is still in its loop, and after a failed send the intake is
\* still in its loop.
C21_FrameErrorContinues ==
    /\ (ev.op = "publish" /\ ~ev.captured) => ppc = "get"
    /\ (ev.op = "frame" /\ ev.send = "failed") => rpc \in {"loop", "put"}

\* C22: when the output device could not be opened only audio_player ends;
\* rtc_session keeps taking frames and calling send_audio for each of them,
\* so it is never suspended in the put to the monitor queue that nothing
\* drains any more.
C22_IntakeRunsWithoutPlayer ==
    player = "failed" => rpc # "put"

----------------------------------------------------------------------------
(* Claims about the playback callback *)

\* C23: the playback callback, which the audio device calls on its own
\* thread, touches only the AudioBuffer and never a queue: no invocation
\* takes a frame from the monitor queue.
C23_CallbackLeavesQueue ==
    ev.op = "callback" => ev.taken = 0

----------------------------------------------------------------------------
(* Claims about the whole run of main(), checked under Spec *)

----------------------------------------------------------------------------
(* Claims about the playback callback's output, checked under SpecPlayer *)

RECURSIVE Joined(_, _)
Joined(buf, q) == IF q = <<>> THEN buf ELSE Joined(ArrCat(buf, Head(q)), Tail(q))

\* C25: every invocation of the playback callback completes in its one
\* step, whatever the queue and the buffer hold, and writes exactly
\* BLOCKSIZE samples: it moves every frame of the monitor queue into the
\* buffer; with at least BLOCKSIZE samples buffered it outputs the first
\* BLOCKSIZE of them and keeps the rest, otherwise it outputs all of them
\* followed by zeros and leaves the buffer empty.
C25_CallbackWritesOneBlock ==
    /\ [](ev.op = "callback" => (player = "running" /\ rpc \in {"loop", "put"}))
    /\ [][(/\ ev'.op = "callback"
           /\ (ev' # ev \/ buffer' # buffer \/ local_audio_queue' # local_audio_queue)) =>
            LET filled == Joined(buffer, local_audio_queue) IN
            /\ ArrLen(ev'.outdata) = BLOCKSIZE
            /\ local_audio_queue' = <<>>
            /\ ev'.taken = Len(local_audio_queue)
            /\ IF ArrLen(filled) >= BLOCKSIZE
               THEN /\ ~ev'.padded
                    /\ ev'.outdata = ArrTake(filled, BLOCKSIZE)
                    /\ buffer' = ArrDrop(filled, BLOCKSIZE)
               ELSE /\ ev'.padded
                    /\ ev'.outdata = ArrCat(filled, ArrZeros(BLOCKSIZE - ArrLen(filled)))
                    /\ buffer' = <<>>]_vars

C25_Witness ==
    /\ ev.op = "callback"
    /\ ev.padded
    /\ ev.taken = 1
    /\ Len(ev.outdata) = 2
    /\ ev.outdata[1].val = 2
    /\ ev.outdata[2].val = 0
    /\ player = "running"

----------------------------------------------------------------------------
(* Claims about rtc_session's waits, checked under Spec *)

\* C27: while no remote participant joins, rtc_session sleeps one second at
\* most WaitLimit (30) times before it returns.
C27_WaitsAtMostLimit ==
    participant_wait_time <= WaitLimit

----------------------------------------------------------------------------
(* Claims about the AudioBuffer as a whole, checked under SpecBuffer *)

\* C28: whatever the order of add_frame, get_chunk and get_padded_chunk
\* calls, no sample is lost, duplicated or reordered: the samples returned so
\* far (the padding zeros of get_padded_chunk left out) followed by the
\* buffer's contents are the frames added so far, in order.
C28_NoSampleLost ==
    Flatten(ab_out) \o Expand(buffer) = ab_added

C28_Witness ==
    /\ ab_mode = "mixed"
    /\ ab_op = "get_chunk"
    /\ ab_ret.some
    /\ Len(ab_out) >= 2
    /\ Len(ab_out[1]) < blocksize
    /\ buffer # <<>>
    /\ ab_added # Zeros(Len(ab_added))

----------------------------------------------------------------------------
(* Claims about what goes out on the voice-agent channel, checked under Spec *)

\* C29: no message, audio or text, is sent on the voice-agent channel while
\* the client is not Ready: a text-bridge task that finds the client not
\* Ready does not send its envelope, and a frame that finds it not Ready is
\* not sent.
C29_NothingSentUnlessReady ==
    /\ (ev.op = "chat" /\ ~ev.ready) => ev.result # "sent"
    /\ (ev.op = "frame" /\ ~ev.ready) => ev.send = "skipped"

----------------------------------------------------------------------------
(* Claims about rtc_session's search for a track, checked under Spec *)

\* C30: the search for a subscribed audio track has no timeout: while
\* rtc_session is searching and no participant has a subscribed audio track,
\* no step makes it return or start on frames, and main() stays in its call
\* of rtc_session, before its task cancellation and cleanup.
C30_TrackSearchNeverTimesOut ==
    /\ [](rpc = "find_track" =>
            /\ participants
            /\ mpc = "rtc_session"
            /\ lpc # "cancelling"
            /\ ppc # "cancelling")
    /\ [][(rpc = "find_track" /\ ~track_ready) =>
            /\ rpc' = "find_track"
            /\ mpc' = "rtc_session"
            /\ frames_left' = frames_left
            /\ local_audio_queue' = local_audio_queue]_vars

C30_Witness ==
    /\ rpc = "find_track"
    /\ ev.op = "find_track"
    /\ participants
    /\ ~track_ready
    /\ mpc = "rtc_session"
    /\ ppc = "get"

----------------------------------------------------------------------------
(* Claims about TextStreamingApp's task list, checked under SpecText *)

Count(l, x) == Cardinality({i \in 1..Len(l) : l[i] = x})

\* C26: active_tasks is a supervised task set.  Every task a text-stream
\* handler created is in the list, once, from its creation until its done
\* callback has run; the callback removes it exactly once, however the task
\* ended, and never fails to find it; the list holds nothing else; and
\* disconnect() requests the cancellation of every task still in the list
\* while the room is still open, which it closes only afterwards.
C26_SupervisedTaskSet ==
    /\ [](/\ \A t \in 1..Len(tasks) :
                /\ tasks[t].st \in {"pending", "finished"} =>
                        (Count(active_tasks, t) = 1 /\ tasks[t].removed = 0)
                /\ tasks[t].st = "called_back" =>
                        (Count(active_tasks, t) = 0 /\ tasks[t].removed = 1)
          /\ \A i \in 1..Len(active_tasks) : active_tasks[i] \in 1..Len(tasks)
          /\ ev.op = "done_callback" => ~ev.raised
          /\ app_room = "disconnected" => app_pc = "done")
    /\ [][(app_pc = "cleanup" /\ app_pc' # app_pc) =>
            /\ \A i \in 1..Len(active_tasks) :
                    tasks'[active_tasks[i]].st = "pending" => tasks'[active_tasks[i]].cancel
            /\ app_room' = app_room
            /\ app_pc' = "room_disconnect"]_vars

C26_Witness ==
    /\ app_pc = "done"
    /\ active_tasks = <<>>
    /\ \E t, u \in 1..Len(tasks) :
        /\ tasks[t].outcome = "cancelled" /\ tasks[t].removed = 1
        /\ tasks[u].outcome = "error" /\ tasks[u].removed = 1

----------------------------------------------------------------------------
(* Claims about the token endpoint, checked under SpecServer *)

\* the parameter a request carries under a key ("" when it carries none)
Param(req, key) ==
    IF req.method = "GET" THEN data_get(req.query, key, "")
    ELSE IF req.length /\ req.body.json /\ req.body.dict
    THEN data_get(req.body.fields, key, "")
    ELSE ""

CredentialsSet ==
    /\ environ.LIVEKIT_API_KEY \notin {"None", ""}
    /\ environ.LIVEKIT_API_SECRET \notin {"None", ""}

\* C31: /api/token answers each GET or POST with exactly one JSON response.
\* A 200 response carries a token and is given only when identity and room
\* are non-empty and both credentials are set; with the token library
\* available, a request without identity or room gets 400 and no token is
\* built; an unavailable library, or missing credentials on a request with
\* identity and room, gets 500; name is identity when it is empty.
C31_TokenEndpoint ==
    (request.method \in {"GET", "POST"} /\ request.path = "/api/token") =>
        /\ Len(responses) = 1
        /\ responses[1].json
        /\ responses[1].status = 200 =>
                /\ Param(request, "identity") # ""
                /\ Param(request, "room") # ""
                /\ CredentialsSet
                /\ "token" \in DOMAIN responses[1].data
                /\ responses[1].data.name =
                        str_or(Param(request, "name"), Param(request, "identity"))
        /\ (LIVEKIT_AVAILABLE /\ (Param(request, "identity") = "" \/ Param(request, "room") = ""))
                => (responses[1].status = 400 /\ ~generated)
        /\ (~LIVEKIT_AVAILABLE \/ (/\ Param(request, "identity") # ""
                                   /\ Param(request, "room") # ""
                                   /\ ~CredentialsSet))
                => responses[1].status = 500

============================================================================
